---- MODULE Spec2Model ----
(***************************************************************************)
(* Model of pupil_src/shared_modules/video_capture/_subtract_nowrap.c:     *)
(* the NumPy ufunc inner loop subtract_nowrap_uint8 and the two module     *)
(* initialisers that register it with the host.                            *)
(*                                                                         *)
(* Memory is one flat array of bytes; a stream is a base address and a     *)
(* step, exactly as the inner loop receives them in args[] and steps[].    *)
(* C arrays are 0-based, TLA+ sequences 1-based: args[1] is the C args[0]. *)
(***************************************************************************)
EXTENDS Integers, Sequences, FiniteSets, TLC

\* ---- bounds of the model ----
MemSize == 4                 \* number of byte cells of host memory
MaxN    == 2                 \* largest element count dimensions[0]
MaxStep == 2                 \* largest step the host passes in steps[]

Addr    == 0 .. MemSize - 1
Vals    == {0, 1, 255}       \* byte values the host memory starts with
Strides == 0 .. MaxStep
Workers == {1, 2}
TypeTags == {"NPY_UINT8", "NPY_BOOL"}

VARIABLES ufunc, mem, mem0, pc, args, dimensions, steps,
          i, n, in1, in2, in1_step, in2_step, acc

vars == <<ufunc, mem, mem0, pc, args, dimensions, steps,
          i, n, in1, in2, in1_step, in2_step, acc>>

NoUfunc == [name |-> "none"]

\* ---- npy_uint8 memory accesses ----
\* *p as an rvalue.  Addresses outside the modelled memory read as 0.
Load8(m, p) == IF p \in DOMAIN m THEN m[p] ELSE 0

\* *p = v, v truncated to 8 bits.
Store8(m, p, v) == IF p \in DOMAIN m THEN [m EXCEPT ![p] = v % 256] ELSE m

\* ---- the inner loop, line by line ----
\* Variant: the loop runs one iteration too many (i <= n).
LoopCond_le(ii, nn) == ii <= nn

\* for (...; i < n; ...)
LoopCond(ii, nn) == ii < nn

\* Variant: plain unsigned subtraction, no clamp.
Compute_wrap(m, p1, p2) == Store8(m, p1, Load8(m, p1) - Load8(m, p2))

\* Variant: the else branch is missing.
Compute_noelse(m, p1, p2) ==
  IF Load8(m, p1) > Load8(m, p2)
    THEN Store8(m, p1, Load8(m, p1) - Load8(m, p2))
    ELSE m

\* Variant: the result is stored through in2.
Compute_in2(m, p1, p2) ==
  IF Load8(m, p1) > Load8(m, p2)
    THEN Store8(m, p2, Load8(m, p1) - Load8(m, p2))
    ELSE Store8(m, p2, 0)

\* if (*in1 > *in2) { *in1 -= *in2; } else { *in1 = 0; }
Compute(m, p1, p2) ==
  IF Load8(m, p1) > Load8(m, p2)
    THEN Store8(m, p1, Load8(m, p1) - Load8(m, p2))
    ELSE Store8(m, p1, 0)

\* Variant: the pointer moves to the next byte whatever the step is.
Advance_unit(p, step) == p + 1

\* in1 += in1_step;  in2 += in2_step;
Advance(p, step) == p + step

\* The memory accesses of one iteration: both pointers are read, in1 is written.
Accesses(ii, p1, p2) ==
  { [op |-> "read",  via |-> "in1", addr |-> p1, iter |-> ii],
    [op |-> "read",  via |-> "in2", addr |-> p2, iter |-> ii],
    [op |-> "write", via |-> "in1", addr |-> p1, iter |-> ii] }

\* The whole loop as a function of the memory it starts on.
RECURSIVE Loop(_, _, _, _, _, _, _)
Loop(m, ii, nn, p1, p2, s1, s2) ==
  IF LoopCond(ii, nn)
    THEN Loop(Compute(m, p1, p2), ii + 1, nn,
              Advance(p1, s1), Advance(p2, s2), s1, s2)
    ELSE m

\* subtract_nowrap_uint8(args, dimensions, steps, data) run to completion.
subtract_nowrap_uint8(m, a, d, s) == Loop(m, 0, d[1], a[1], a[2], s[1], s[2])

\* ---- registration ----
\* static char types[2] = {NPY_UINT8, NPY_UINT8};
types == <<"NPY_UINT8", "NPY_UINT8">>

\* PyUFunc_FromFuncAndData(funcs, data, types, ntypes, nin, nout, ..., name, ...)
\* keeps the pointer to the type table and the operand counts.
PyUFunc_FromFuncAndData(tbl, ntypes, nin, nout, name) ==
  [name |-> name, types |-> tbl, ntypes |-> ntypes, nin |-> nin, nout |-> nout]

\* The type signatures the host can read for a registered loop: one tag per
\* operand, taken from the table; an entry past the end of the table is an
\* out-of-bounds read and may be any tag.
Signatures(u) ==
  { sig \in [1 .. u.nin + u.nout -> TypeTags] :
      \A k \in 1 .. u.nin + u.nout : k <= Len(u.types) => sig[k] = u.types[k] }

Init ==
  /\ ufunc = NoUfunc
  /\ mem \in [Addr -> Vals]
  /\ mem0 = mem
  /\ pc = [t \in Workers |-> "idle"]
  /\ args = [t \in Workers |-> <<>>]
  /\ dimensions = [t \in Workers |-> <<0>>]
  /\ steps = [t \in Workers |-> <<>>]
  /\ i = [t \in Workers |-> 0]
  /\ n = [t \in Workers |-> 0]
  /\ in1 = [t \in Workers |-> 0]
  /\ in2 = [t \in Workers |-> 0]
  /\ in1_step = [t \in Workers |-> 0]
  /\ in2_step = [t \in Workers |-> 0]
  /\ acc = [t \in Workers |-> {}]

kernelVars == <<mem, mem0, pc, args, dimensions, steps,
                i, n, in1, in2, in1_step, in2_step, acc>>

\* Python 3 module initialiser: nin = 2, nout = 0.
PyInit__npufunc ==
  /\ ufunc = NoUfunc
  /\ ufunc' = PyUFunc_FromFuncAndData(types, 1, 2, 0, "subtract_nowrap")
  /\ UNCHANGED kernelVars

\* Pre-Python 3 module initialiser: nin = 2, nout = 1.
init_npufunc ==
  /\ ufunc = NoUfunc
  /\ ufunc' = PyUFunc_FromFuncAndData(types, 1, 2, 1, "subtract_nowrap")
  /\ UNCHANGED kernelVars

\* ---- the host's call of the inner loop ----
\* The cells stream k of a call addresses: base + j*step for j in [0, n).
StreamCells(a, d, s, k) == { a[k] + j * s[k] : j \in 0 .. d[1] - 1 }

DescCells(a, d, s) == UNION { StreamCells(a, d, s, k) : k \in 1 .. Len(a) }

\* The host passes one pointer and one step per operand.  The inputs are
\* arbitrary views (packed, strided or broadcast); an output operand is a
\* packed uint8 array, step 1.  Every stream holds dimensions[0] elements
\* inside host memory.
HostSteps(nin, nout) ==
  { s \in [1 .. nin + nout -> Strides] :
      \A k \in nin + 1 .. nin + nout : s[k] = 1 }

HostDescs(nin, nout) ==
  UNION { { [args |-> a, dimensions |-> <<nn>>, steps |-> s] :
              a \in { b \in [1 .. nin + nout -> Addr] :
                        DescCells(b, <<nn>>, s) \subseteq Addr } } :
            nn \in 0 .. MaxN, s \in HostSteps(nin, nout) }

DescsNoOut == HostDescs(2, 0)
DescsOneOut == HostDescs(2, 1)

DescsFor(u) == IF u.nout = 0 THEN DescsNoOut ELSE DescsOneOut

\* The host calls subtract_nowrap_uint8 for worker t with the descriptor de.
\* On entry the locals are initialised from the arguments, and i = 0 opens
\* the for loop.
Call(t, de) ==
  /\ pc[t] = "idle"
  /\ args' = [args EXCEPT ![t] = de.args]
  /\ dimensions' = [dimensions EXCEPT ![t] = de.dimensions]
  /\ steps' = [steps EXCEPT ![t] = de.steps]
  /\ n' = [n EXCEPT ![t] = de.dimensions[1]]
  /\ in1' = [in1 EXCEPT ![t] = de.args[1]]
  /\ in2' = [in2 EXCEPT ![t] = de.args[2]]
  /\ in1_step' = [in1_step EXCEPT ![t] = de.steps[1]]
  /\ in2_step' = [in2_step EXCEPT ![t] = de.steps[2]]
  /\ i' = [i EXCEPT ![t] = 0]
  /\ acc' = [acc EXCEPT ![t] = {}]
  /\ pc' = [pc EXCEPT ![t] = "loop"]
  /\ UNCHANGED <<ufunc, mem, mem0>>

HostCall(t) ==
  /\ ufunc # NoUfunc
  /\ pc[t] = "idle"
  /\ \E de \in DescsFor(ufunc) : Call(t, de)

\* One iteration of the for loop.
LoopIter(t) ==
  /\ pc[t] = "loop"
  /\ LoopCond(i[t], n[t])
  /\ mem' = Compute(mem, in1[t], in2[t])
  /\ acc' = [acc EXCEPT ![t] = @ \cup Accesses(i[t], in1[t], in2[t])]
  /\ in1' = [in1 EXCEPT ![t] = Advance(@, in1_step[t])]
  /\ in2' = [in2 EXCEPT ![t] = Advance(@, in2_step[t])]
  /\ i' = [i EXCEPT ![t] = @ + 1]
  /\ UNCHANGED <<ufunc, mem0, pc, args, dimensions, steps, n, in1_step, in2_step>>

\* The loop condition fails and the function returns.
LoopExit(t) ==
  /\ pc[t] = "loop"
  /\ ~LoopCond(i[t], n[t])
  /\ pc' = [pc EXCEPT ![t] = "done"]
  /\ UNCHANGED <<ufunc, mem, mem0, args, dimensions, steps,
                 i, n, in1, in2, in1_step, in2_step, acc>>

\* ---- one call at a time ----
Next ==
  \/ PyInit__npufunc
  \/ init_npufunc
  \/ HostCall(1)
  \/ LoopIter(1)
  \/ LoopExit(1)

Spec == Init /\ [][Next]_vars

\* ---- two calls running concurrently on disjoint descriptors ----
\* Descriptor x lies before descriptor y: some cell of x is below every cell
\* of y.
Before(cx, cy) == \E c \in cx : \A e \in cy : c < e

\* The pairs of descriptors that share no cell, each of at least two
\* elements so that the iterations of the two calls can interleave.  The two
\* workers run the same code, so a pair is taken once, worker 1 holding the
\* descriptor with the lower first cell.
ConcPairs(D) ==
  LET C == { <<de, DescCells(de.args, de.dimensions, de.steps)>> :
               de \in { d \in D : d.dimensions[1] >= 2 } }
  IN UNION { { <<x[1], y[1]>> :
                 y \in { z \in C : x[2] \cap z[2] = {} /\ Before(x[2], z[2]) } } :
               x \in C }

PairsNoOut == ConcPairs(DescsNoOut)
PairsOneOut == ConcPairs(DescsOneOut)

PairsFor(u) == IF u.nout = 0 THEN PairsNoOut ELSE PairsOneOut

\* The host hands two disjoint descriptors to two worker threads, and each
\* thread enters subtract_nowrap_uint8.  Entering the function writes only
\* the thread's own locals, so the two entries are taken together; the
\* iterations, which touch memory, interleave freely.
Dispatch ==
  /\ ufunc # NoUfunc
  /\ \A t \in Workers : pc[t] = "idle"
  /\ \E pr \in PairsFor(ufunc) :
       /\ args' = [t \in Workers |-> pr[t].args]
       /\ dimensions' = [t \in Workers |-> pr[t].dimensions]
       /\ steps' = [t \in Workers |-> pr[t].steps]
       /\ n' = [t \in Workers |-> pr[t].dimensions[1]]
       /\ in1' = [t \in Workers |-> pr[t].args[1]]
       /\ in2' = [t \in Workers |-> pr[t].args[2]]
       /\ in1_step' = [t \in Workers |-> pr[t].steps[1]]
       /\ in2_step' = [t \in Workers |-> pr[t].steps[2]]
  /\ i' = [t \in Workers |-> 0]
  /\ acc' = [t \in Workers |-> {}]
  /\ pc' = [t \in Workers |-> "loop"]
  /\ UNCHANGED <<ufunc, mem, mem0>>

NextConc ==
  \/ PyInit__npufunc
  \/ init_npufunc
  \/ Dispatch
  \/ \E t \in Workers : LoopIter(t)
  \/ \E t \in Workers : LoopExit(t)

ConcVals == {1, 255}
InitConc == Init /\ mem \in [Addr -> ConcVals]

SpecConc == InitConc /\ [][NextConc]_vars

\* ======================= properties =======================
\* The call of worker 1 is the call the single-call properties speak of.
N1 == dimensions[1][1]
Idx == 0 .. N1 - 1
ACell(k) == args[1][1] + k * steps[1][1]
BCell(k) == args[1][2] + k * steps[1][2]
OCell(k) == args[1][3] + k * steps[1][3]
ACells == { ACell(k) : k \in Idx }
BCells == { BCell(k) : k \in Idx }
OCells == { OCell(k) : k \in Idx }
InCall == pc[1] \in {"loop", "done"}
Returned == pc[1] = "done"

\* The saturating difference of the contract.
Sat(x, y) == IF x > y THEN x - y ELSE 0

\* C1: after one call, for every n, every pair of input streams and every
\* pair of strides (unit, greater than one, or 0), the result element at every
\* index i in [0, n) is a0[i] - b0[i] if a0[i] > b0[i] and 0 otherwise, a0 and
\* b0 being the contents at the start of the call.  Stated here for inputs
\* that share no cell, the case most favourable to the claim.
C1_ElementwiseSaturatingDifference ==
  (Returned /\ ACells \cap BCells = {}) =>
    \A k \in Idx : mem[ACell(k)] = Sat(mem0[ACell(k)], mem0[BCell(k)])

\* C2: when the host supplies an output stream distinct from both inputs, one
\* call fills that output at all n indices with the saturating difference and
\* leaves the contents of both input streams as they were.
C2_OutputPopulatedInputsKept ==
  (Returned /\ Len(args[1]) = 3 /\ OCells \cap (ACells \cup BCells) = {}) =>
    /\ \A k \in Idx : mem[OCell(k)] = Sat(mem0[ACell(k)], mem0[BCell(k)])
    /\ \A c \in ACells \cup BCells : mem[c] = mem0[c]

\* C3: a call with n = 0 is a no-op whatever the strides are: it reads and
\* writes no cell, and every cell of memory keeps its value.
C3_ZeroLengthNoOp ==
  (InCall /\ N1 = 0) => (acc[1] = {} /\ mem = mem0)

C3_Witness ==
  Returned /\ N1 = 0 /\ steps[1][1] = 2 /\ steps[1][2] = 0

\* Memory with a tightly packed copy of the n elements of a stream appended
\* at addresses MemSize .. MemSize + n - 1.
PackedCopy(cell(_)) ==
  [c \in 0 .. MemSize + N1 - 1 |->
     IF c < MemSize THEN mem0[c] ELSE mem0[cell(c - MemSize)]]

\* The kernel run with stride 1 over the packed copy of the first input.
OnPackedA == Loop(PackedCopy(ACell), 0, N1, MemSize, args[1][2], 1, steps[1][2])

\* The kernel run with stride 1 over the packed copy of the second input.
OnPackedB == Loop(PackedCopy(BCell), 0, N1, args[1][1], MemSize, steps[1][1], 1)

C5_ResultBoundedByFirstOperand ==
  InCall =>
    \A k \in Idx : mem[ACell(k)] \in 0 .. 255 /\ mem[ACell(k)] <= mem0[ACell(k)]

C5_Witness ==
  /\ pc[1] = "loop" /\ i[1] = 1 /\ N1 = 2
  /\ mem0[ACell(0)] < mem0[BCell(0)]
  /\ mem[ACell(0)] = 0

\* C7: the kernel is registered under the name "subtract_nowrap" with exactly
\* two uint8 inputs and exactly one uint8 output, the type table holding one
\* tag per input and per output, on both registration paths.
C7_RegisteredBinaryOneOutput ==
  ufunc # NoUfunc =>
    /\ ufunc.name = "subtract_nowrap"
    /\ ufunc.nin = 2
    /\ ufunc.nout = 1
    /\ Len(ufunc.types) = ufunc.ntypes * (ufunc.nin + ufunc.nout)
    /\ \A sig \in Signatures(ufunc) : \A k \in DOMAIN sig : sig[k] = "NPY_UINT8"

RECURSIVE InOrder(_, _, _)
InOrder(m, f, k) ==
  IF k < N1
    THEN InOrder(Compute(m, ACell(f[k]), BCell(f[k])), f, k + 1)
    ELSE m

\* C9: the written stream being the first input, and the second input the
\* same view or an overlapping one, processing the indices 0..n-1 in any
\* order leaves the same buffer contents as processing them in ascending
\* order.
C9_AnyTraversalOrder ==
  Returned => \A f \in Permutations(Idx) : InOrder(mem0, f, 0) = mem

\* C10: when the second input is the very same stream as the first (same
\* base, same stride), the call leaves 0 at every index in [0, n).
C10_SelfSubtractionZero ==
  (Returned /\ args[1][1] = args[1][2] /\ steps[1][1] = steps[1][2]) =>
    \A k \in Idx : mem[ACell(k)] = 0

C10_Witness ==
  /\ Returned /\ args[1][1] = args[1][2] /\ steps[1][1] = steps[1][2]
  /\ N1 = 2 /\ steps[1][1] = 1
  /\ \A k \in Idx : mem0[ACell(k)] > 0 /\ mem[ACell(k)] = 0

\* The memory left by running the call of worker t, then the call of worker u.
OneAfterTheOther(t, u) ==
  subtract_nowrap_uint8(
    subtract_nowrap_uint8(mem0, args[t], dimensions[t], steps[t]),
    args[u], dimensions[u], steps[u])

\* C6: two calls on disjoint descriptors, their iterations interleaved in any
\* order, leave memory as running them one after the other does.
C6_ConcurrentEqualsSequential ==
  (\A t \in Workers : pc[t] = "done") =>
    /\ mem = OneAfterTheOther(1, 2)
    /\ mem = OneAfterTheOther(2, 1)

C6_Witness ==
  /\ \A t \in Workers : pc[t] = "done"
  /\ \A t \in Workers :
       \E c \in StreamCells(args[t], dimensions[t], steps[t], 1) :
         mem[c] # mem0[c] /\ mem[c] # 0

====
